---- MODULE Spec2Model ----
(***************************************************************************)
(* Model of the shopping-cart state holder of                              *)
(* src/context/ShoppingCartContext.tsx (ShoppingCartProvider).             *)
(*                                                                         *)
(* The provider owns two pieces of hook state, isOpen and cartItems.  The  *)
(* handlers do not change them directly: they hand a value (setIsOpen) or  *)
(* an updater callback (setCartItems) to the state setter, which queues    *)
(* it; the next render of the provider runs the queued actions in order,   *)
(* recomputes cartQuantity and publishes the new context value.  The       *)
(* cartItems state lives in useLocalStorage, which loads it under the key  *)
(* "shopping-cart" at mount and writes it back whenever it changes.        *)
(***************************************************************************)
EXTENDS Integers, Sequences, FiniteSets, TLC

\* ---- bounds of the model ------------------------------------------------
MaxId == 2          \* item ids are 1..MaxId
MaxTotal == 3       \* increaseCartQuantity is not called beyond this total
MaxPending == 2     \* state updates queued between two renders

Ids == 1..MaxId

VARIABLES
    isOpen,         \* useState(false)                       (line 32)
    cartItems,      \* useLocalStorage("shopping-cart", [])  (line 33)
    cartQuantity,   \* const computed by the render          (line 39)
    queue,          \* state updates queued since the last render
    stored,         \* the "shopping-cart" slot: <<>> or <<serialized list>>
    returned,       \* what getItemQuantity last returned in this render
    baseItems,      \* history: cartItems before the first call of a batch
    calls           \* history: the handler calls of that batch, in order

vars == <<isOpen, cartItems, cartQuantity, queue, stored, returned,
          baseItems, calls>>

\* ---- CartItem[] helpers (Array.prototype.find / map / filter) ------------

\* type CartItem = { id: number; quantity: number }
CartItem(id, quantity) == [id |-> id, quantity |-> quantity]

\* currItems.find((item) => item.id === id): the first match, as a list of
\* zero (undefined) or one element.
Find(items, id) ==
    IF \E i \in 1..Len(items) : items[i].id = id
    THEN LET first == CHOOSE i \in 1..Len(items) :
                          /\ items[i].id = id
                          /\ \A j \in 1..(i - 1) : items[j].id # id
         IN  <<items[first]>>
    ELSE <<>>

\* currItems.filter((item) => item.id !== id)
FilterOut(items, id) == SelectSeq(items, LAMBDA item : item.id # id)

\* ---- the updater callbacks handed to setCartItems ------------------------

\* variant: the new entry is added without looking for an existing one
IncreaseUpdater_alwaysAppend(currItems, id) ==
    currItems \o <<CartItem(id, 1)>>

\* variant: the map callback forgets the item.id === id test
IncreaseUpdater_allItems(currItems, id) ==
    IF Find(currItems, id) = <<>>
    THEN currItems \o <<CartItem(id, 1)>>
    ELSE [i \in 1..Len(currItems) |->
            [currItems[i] EXCEPT !.quantity = currItems[i].quantity + 1]]

\* variant: a new entry is put in front of the list ([{ id, quantity: 1 },
\* ...currItems])
IncreaseUpdater_prepend(currItems, id) ==
    IF Find(currItems, id) = <<>>
    THEN <<CartItem(id, 1)>> \o currItems
    ELSE [i \in 1..Len(currItems) |->
            IF currItems[i].id = id
            THEN [currItems[i] EXCEPT !.quantity = currItems[i].quantity + 1]
            ELSE currItems[i]]

\* variant: the find test is inverted (!= null), so a present id is appended
\* again and an absent one is only mapped
IncreaseUpdater_invertedTest(currItems, id) ==
    IF Find(currItems, id) # <<>>
    THEN currItems \o <<CartItem(id, 1)>>
    ELSE [i \in 1..Len(currItems) |->
            IF currItems[i].id = id
            THEN [currItems[i] EXCEPT !.quantity = currItems[i].quantity + 1]
            ELSE currItems[i]]

\* (currItems) => ... of increaseCartQuantity
IncreaseUpdater(currItems, id) ==
    IF Find(currItems, id) = <<>>
    THEN currItems \o <<CartItem(id, 1)>>
    ELSE [i \in 1..Len(currItems) |->
            IF currItems[i].id = id
            THEN [currItems[i] EXCEPT !.quantity = currItems[i].quantity + 1]
            ELSE currItems[i]]

\* variant: the quantity === 1 branch is missing, the entry is always mapped
DecreaseUpdater_noRemoval(currItems, id) ==
    [i \in 1..Len(currItems) |->
        IF currItems[i].id = id
        THEN [currItems[i] EXCEPT !.quantity = currItems[i].quantity - 1]
        ELSE currItems[i]]

\* variant: the entry is filtered out whatever its quantity
DecreaseUpdater_alwaysRemove(currItems, id) == FilterOut(currItems, id)

\* variant: an absent id is given an entry that is then decremented
DecreaseUpdater_createsAbsent(currItems, id) ==
    IF Find(currItems, id) = <<>>
    THEN currItems \o <<CartItem(id, 0 - 1)>>
    ELSE IF Find(currItems, id)[1].quantity = 1
         THEN FilterOut(currItems, id)
         ELSE [i \in 1..Len(currItems) |->
                 IF currItems[i].id = id
                 THEN [currItems[i] EXCEPT
                          !.quantity = currItems[i].quantity - 1]
                 ELSE currItems[i]]

\* variant: the removal test is off by one (quantity === 2)
DecreaseUpdater_offByOne(currItems, id) ==
    IF Find(currItems, id) # <<>> /\ Find(currItems, id)[1].quantity = 2
    THEN FilterOut(currItems, id)
    ELSE [i \in 1..Len(currItems) |->
            IF currItems[i].id = id
            THEN [currItems[i] EXCEPT !.quantity = currItems[i].quantity - 1]
            ELSE currItems[i]]

\* variant: the map callback forgets the item.id === id test
DecreaseUpdater_allItems(currItems, id) ==
    IF Find(currItems, id) # <<>> /\ Find(currItems, id)[1].quantity = 1
    THEN FilterOut(currItems, id)
    ELSE [i \in 1..Len(currItems) |->
            [currItems[i] EXCEPT !.quantity = currItems[i].quantity - 1]]

\* (currItems) => ... of decreaseCartQuantity
DecreaseUpdater(currItems, id) ==
    IF Find(currItems, id) # <<>> /\ Find(currItems, id)[1].quantity = 1
    THEN FilterOut(currItems, id)
    ELSE [i \in 1..Len(currItems) |->
            IF currItems[i].id = id
            THEN [currItems[i] EXCEPT !.quantity = currItems[i].quantity - 1]
            ELSE currItems[i]]

\* variant: the filter test is inverted (item.id === id)
RemoveUpdater_inverted(currItems, id) ==
    SelectSeq(currItems, LAMBDA item : item.id = id)

\* variant: remove takes one unit off, as decreaseCartQuantity does
RemoveUpdater_decrements(currItems, id) == DecreaseUpdater(currItems, id)

\* (currItems) => ... of removeFromCart
RemoveUpdater(currItems, id) == FilterOut(currItems, id)

\* ---- values derived by a render ------------------------------------------

RECURSIVE Reduce(_, _)
\* cartItems.reduce((quantity, item) => item.quantity + quantity, 0)
Reduce(items, quantity) ==
    IF items = <<>> THEN quantity
    ELSE Reduce(Tail(items), Head(items).quantity + quantity)

\* variant: the reducer counts the entries instead of adding quantities
CartQuantityOf_countEntries(items) == Len(items)

RECURSIVE ReduceLast(_, _)
\* variant: the reducer returns item.quantity and drops the accumulator
ReduceLast(items, quantity) ==
    IF items = <<>> THEN quantity
    ELSE ReduceLast(Tail(items), Head(items).quantity)

CartQuantityOf_dropsAccumulator(items) == ReduceLast(items, 0)

\* const cartQuantity = cartItems.reduce(..., 0)
CartQuantityOf(items) == Reduce(items, 0)

\* variant: the fallback of the lookup is 1 instead of 0
ItemQuantity_defaultOne(items, id) ==
    LET found == Find(items, id)
    IN  IF found = <<>> \/ found[1].quantity = 0 THEN 1
        ELSE found[1].quantity

\* cartItems.find((item) => item.id === id)?.quantity || 0
ItemQuantity(items, id) ==
    LET found == Find(items, id)
    IN  IF found = <<>> \/ found[1].quantity = 0 THEN 0
        ELSE found[1].quantity

\* ---- the state setters and the render ------------------------------------

\* a queued state update: a plain value or an updater callback (the callback
\* is kept as its code, fn, and the id it closes over)
ValueAction(hook, value) == [hook |-> hook, type |-> "value", value |-> value]
UpdaterAction(hook, fn, id) ==
    [hook |-> hook, type |-> "function", fn |-> fn, id |-> id]

\* calling the callback on the state it is given
CallUpdater(action, currItems) ==
    CASE action.fn = "increase" -> IncreaseUpdater(currItems, action.id)
      [] action.fn = "decrease" -> DecreaseUpdater(currItems, action.id)
      [] action.fn = "remove"   -> RemoveUpdater(currItems, action.id)

\* one queued update applied to the state of its hook
ApplyAction(state, action) ==
    IF action.type = "function" THEN CallUpdater(action, state)
    ELSE action.value

RECURSIVE ProcessQueue(_, _, _)
\* the queued updates of one hook, applied oldest first
ProcessQueue(hook, state, pending) ==
    IF pending = <<>> THEN state
    ELSE ProcessQueue(hook,
                      IF Head(pending).hook = hook
                      THEN ApplyAction(state, Head(pending))
                      ELSE state,
                      Tail(pending))

\* the setters queue their argument (setIsOpen, setCartItems)
Enqueue(action) == queue' = Append(queue, action)

\* no cartItems update is waiting for the render
NoPendingCart == \A i \in 1..Len(queue) : queue[i].hook # "cartItems"

\* history of the handler calls of the current batch: a batch starts with
\* the first call after a render and ends with the next render
Record(op, id) ==
    IF queue = <<>>
    THEN /\ baseItems' = cartItems
         /\ calls' = <<[op |-> op, id |-> id]>>
    ELSE /\ baseItems' = baseItems
         /\ calls' = Append(calls, [op |-> op, id |-> id])

\* ---- persistence (useLocalStorage) ---------------------------------------

\* the list as written to the slot: one <<id, quantity>> pair per entry
Serialize(items) == [i \in 1..Len(items) |-> <<items[i].id, items[i].quantity>>]
\* and read back
Parse(text) == [i \in 1..Len(text) |-> CartItem(text[i][1], text[i][2])]

\* load(key, default): the stored list, or the default when the slot is empty
Load(slot, default) == IF slot = <<>> THEN default ELSE Parse(slot[1])

\* ---- operations ------------------------------------------------------------

Init ==
    /\ isOpen = FALSE
    /\ stored = <<>>
    /\ cartItems = Load(<<>>, <<>>)
    /\ cartQuantity = CartQuantityOf(<<>>)
    /\ queue = <<>>
    /\ returned = <<>>
    /\ baseItems = <<>>
    /\ calls = <<>>

\* variant: the flag is flipped (setIsOpen(!isOpen)) instead of set
openCart_toggle ==
    /\ Len(queue) < MaxPending
    /\ Enqueue(ValueAction("isOpen", ~isOpen))
    /\ Record("open", 0)
    /\ UNCHANGED <<isOpen, cartItems, cartQuantity, stored, returned>>

openCart ==
    /\ Len(queue) < MaxPending
    /\ Enqueue(ValueAction("isOpen", TRUE))
    /\ Record("open", 0)
    /\ UNCHANGED <<isOpen, cartItems, cartQuantity, stored, returned>>

closeCart ==
    /\ Len(queue) < MaxPending
    /\ Enqueue(ValueAction("isOpen", FALSE))
    /\ Record("close", 0)
    /\ UNCHANGED <<isOpen, cartItems, cartQuantity, stored, returned>>

getItemQuantity(id) ==
    /\ returned' = <<[id |-> id, quantity |-> ItemQuantity(cartItems, id)]>>
    /\ UNCHANGED <<isOpen, cartItems, cartQuantity, queue, stored,
                   baseItems, calls>>

\* variant: the new list is computed from the cartItems of the current
\* render and handed over as a value, instead of an updater callback
increaseCartQuantity_stale(id) ==
    /\ Len(queue) < MaxPending
    /\ cartQuantity + Len(queue) < MaxTotal
    /\ Enqueue(ValueAction("cartItems", IncreaseUpdater(cartItems, id)))
    /\ Record("increase", id)
    /\ UNCHANGED <<isOpen, cartItems, cartQuantity, stored, returned>>

increaseCartQuantity(id) ==
    /\ Len(queue) < MaxPending
    /\ cartQuantity + Len(queue) < MaxTotal
    /\ Enqueue(UpdaterAction("cartItems", "increase", id))
    /\ Record("increase", id)
    /\ UNCHANGED <<isOpen, cartItems, cartQuantity, stored, returned>>

decreaseCartQuantity(id) ==
    /\ Len(queue) < MaxPending
    /\ Enqueue(UpdaterAction("cartItems", "decrease", id))
    /\ Record("decrease", id)
    /\ UNCHANGED <<isOpen, cartItems, cartQuantity, stored, returned>>

removeFromCart(id) ==
    /\ Len(queue) < MaxPending
    /\ Enqueue(UpdaterAction("cartItems", "remove", id))
    /\ Record("remove", id)
    /\ UNCHANGED <<isOpen, cartItems, cartQuantity, stored, returned>>

\* variant: the list is kept in plain useState and never written to the slot
Render_noPersist ==
    /\ queue # <<>>
    /\ isOpen' = ProcessQueue("isOpen", isOpen, queue)
    /\ cartItems' = ProcessQueue("cartItems", cartItems, queue)
    /\ cartQuantity' = CartQuantityOf(cartItems')
    /\ queue' = <<>>
    /\ returned' = <<>>
    /\ UNCHANGED <<stored, baseItems, calls>>

\* the provider function runs again: both hooks take their queued updates,
\* cartQuantity is recomputed, and the effect of useLocalStorage writes the
\* list when it was replaced
Render ==
    /\ queue # <<>>
    /\ isOpen' = ProcessQueue("isOpen", isOpen, queue)
    /\ cartItems' = ProcessQueue("cartItems", cartItems, queue)
    /\ cartQuantity' = CartQuantityOf(cartItems')
    /\ stored' = IF NoPendingCart THEN stored ELSE <<Serialize(cartItems')>>
    /\ queue' = <<>>
    /\ returned' = <<>>
    /\ UNCHANGED <<baseItems, calls>>

\* a new session: the provider is mounted again and reads the slot
Mount ==
    /\ isOpen' = FALSE
    /\ cartItems' = Load(stored, <<>>)
    /\ cartQuantity' = CartQuantityOf(cartItems')
    /\ queue' = <<>>
    /\ returned' = <<>>
    /\ baseItems' = cartItems'
    /\ calls' = <<>>
    /\ UNCHANGED stored

Next ==
    \/ openCart
    \/ closeCart
    \/ \E id \in Ids : getItemQuantity(id)
    \/ \E id \in Ids : increaseCartQuantity(id)
    \/ \E id \in Ids : decreaseCartQuantity(id)
    \/ \E id \in Ids : removeFromCart(id)
    \/ Render
    \/ Mount

Spec == Init /\ [][Next]_vars

\* ---- the provider mounted over an arbitrary stored cart ----------------------

\* the lists of CartItem with pairwise distinct ids and quantities >= 1
AnyLists ==
    UNION {{items \in [1..n -> [id : Ids, quantity : 1..MaxTotal]] :
               \A i, j \in 1..n : items[i].id = items[j].id => i = j} :
           n \in 0..MaxId}

\* the state after a mount that found such a list in the slot
InitAny ==
    /\ isOpen = FALSE
    /\ stored \in {<<Serialize(items)>> : items \in AnyLists}
    /\ cartItems = Load(stored, <<>>)
    /\ cartQuantity = CartQuantityOf(cartItems)
    /\ queue = <<>>
    /\ returned = <<>>
    /\ baseItems = cartItems
    /\ calls = <<>>

\* the three mutations and the render that applies them
NextAny ==
    \/ \E id \in Ids : increaseCartQuantity(id)
    \/ \E id \in Ids : decreaseCartQuantity(id)
    \/ \E id \in Ids : removeFromCart(id)
    \/ Render

SpecAny == InitAny /\ [][NextAny]_vars

\* ---- vocabulary of the properties ----------------------------------------

\* id has an entry in items
Present(items, id) == \E i \in 1..Len(items) : items[i].id = id

\* the positions of items that hold id
PositionsOf(items, id) == {i \in 1..Len(items) : items[i].id = id}

\* the quantity recorded for id in a list that holds id once
QuantityIn(items, id) ==
    LET i == CHOOSE k \in 1..Len(items) : items[k].id = id
    IN  items[i].quantity

\* items with position k cut out
WithoutPosition(items, k) ==
    SubSeq(items, 1, k - 1) \o SubSeq(items, k + 1, Len(items))

\* the cart has settled after a batch that consisted of exactly this call
SingleCall(op, id) ==
    /\ NoPendingCart
    /\ calls = <<[op |-> op, id |-> id]>>

\* one mutation call applied to a list, as a sequential store would
ApplyCall(items, call) ==
    CASE call.op = "increase" -> IncreaseUpdater(items, call.id)
      [] call.op = "decrease" -> DecreaseUpdater(items, call.id)
      [] call.op = "remove"   -> RemoveUpdater(items, call.id)
      [] OTHER                  -> items

RECURSIVE FoldCalls(_, _)
\* the calls folded over a list, first call first
FoldCalls(callSeq, items) ==
    IF callSeq = <<>> THEN items
    ELSE LET n == Len(callSeq)
         IN  ApplyCall(FoldCalls(SubSeq(callSeq, 1, n - 1), items), callSeq[n])

RECURSIVE SumQuantities(_)
\* the sum of quantity over the entries of a list
SumQuantities(items) ==
    IF items = <<>> THEN 0
    ELSE LET n == Len(items)
         IN  SumQuantities(SubSeq(items, 1, n - 1)) + items[n].quantity

\* ---- C1 -------------------------------------------------------------------
\* C1: whatever calls were made, and whether the list started empty or was
\* loaded from the slot, cartItems never holds two entries with the same id.
C1_UniqueIds ==
    \A i, j \in 1..Len(cartItems) :
        cartItems[i].id = cartItems[j].id => i = j

\* an id already in the cart was increased again, next to another entry
C1_Witness ==
    /\ NoPendingCart
    /\ Len(cartItems) = 2
    /\ calls # <<>>
    /\ calls[Len(calls)].op = "increase"
    /\ Present(baseItems, calls[Len(calls)].id)

\* ---- C2 -------------------------------------------------------------------
\* C2: every entry of cartItems has quantity >= 1; no entry with quantity 0
\* or a negative quantity is ever present.
C2_PositiveQuantities ==
    \A i \in 1..Len(cartItems) : cartItems[i].quantity >= 1

\* an entry of quantity 1 was decreased, and an absent id was decreased
C2_Witness ==
    /\ NoPendingCart
    /\ Len(calls) = 2
    /\ calls[1].op = "decrease"
    /\ calls[2].op = "decrease"
    /\ Present(baseItems, calls[1].id)
    /\ QuantityIn(baseItems, calls[1].id) = 1
    /\ ~Present(baseItems, calls[2].id)

\* ---- C3 -------------------------------------------------------------------
\* C3: once the calls of a batch have been applied, the list equals the
\* calls folded, in the order they were made, over the list as it stood
\* before the first of them; no call is lost or applied to a stale list.
C3_AppliedInOrder ==
    NoPendingCart => cartItems = FoldCalls(calls, baseItems)

\* two calls were made before the list was read again, and both took effect
C3_Witness ==
    /\ NoPendingCart
    /\ Len(calls) = 2
    /\ calls[1].op = "increase"
    /\ calls[2].op = "increase"
    /\ calls[1].id # calls[2].id
    /\ baseItems = <<>>
    /\ Len(cartItems) = 2

\* ---- C4 -------------------------------------------------------------------
\* C4: increaseCartQuantity(id) appends {id, 1} at the end when id has no
\* entry and otherwise raises the quantity of its entry by 1, the other
\* entries staying as they are; either way id has exactly one entry after.
C4_Increase ==
    \A id \in Ids :
        SingleCall("increase", id) =>
            /\ Cardinality(PositionsOf(cartItems, id)) = 1
            /\ IF ~Present(baseItems, id)
               THEN cartItems = Append(baseItems, CartItem(id, 1))
               ELSE /\ Len(cartItems) = Len(baseItems)
                    /\ \A i \in 1..Len(baseItems) :
                         cartItems[i] =
                            IF baseItems[i].id = id
                            THEN CartItem(id, baseItems[i].quantity + 1)
                            ELSE baseItems[i]

\* an existing entry was increased while another entry was in the list
C4_Witness ==
    \E id \in Ids :
        /\ SingleCall("increase", id)
        /\ Present(baseItems, id)
        /\ Len(baseItems) = 2
        /\ QuantityIn(cartItems, id) = 2

\* ---- C5 -------------------------------------------------------------------
\* C5: decreaseCartQuantity(id) on a present entry removes the entry when
\* its quantity is 1 and otherwise lowers its quantity by 1, keeping it.
C5_DecreasePresent ==
    \A id \in Ids :
        (SingleCall("decrease", id) /\ Present(baseItems, id)) =>
            LET k == CHOOSE i \in 1..Len(baseItems) : baseItems[i].id = id
            IN  IF baseItems[k].quantity = 1
                THEN cartItems = WithoutPosition(baseItems, k)
                ELSE cartItems =
                        [baseItems EXCEPT
                            ![k] = CartItem(id, baseItems[k].quantity - 1)]

\* an entry of quantity 2 was decreased and is still there with quantity 1
C5_Witness ==
    \E id \in Ids :
        /\ SingleCall("decrease", id)
        /\ Present(baseItems, id)
        /\ QuantityIn(baseItems, id) = 2
        /\ Present(cartItems, id)

\* ---- C6 -------------------------------------------------------------------
\* C6: decreaseCartQuantity(id) for an id without an entry leaves the list
\* exactly as it was and creates no entry for id.
C6_DecreaseAbsent ==
    \A id \in Ids :
        (SingleCall("decrease", id) /\ ~Present(baseItems, id)) =>
            /\ cartItems = baseItems
            /\ ~Present(cartItems, id)

\* an absent id was decreased in a cart that holds another entry
C6_Witness ==
    \E id \in Ids :
        /\ SingleCall("decrease", id)
        /\ ~Present(baseItems, id)
        /\ baseItems # <<>>

\* ---- C7 -------------------------------------------------------------------
\* C7: removeFromCart(id) removes the entry of id whatever its quantity, so
\* that the lookup of id gives 0; the other entries keep their quantities
\* and order, and the list is unchanged when id has no entry.
C7_Remove ==
    \A id \in Ids :
        SingleCall("remove", id) =>
            /\ ItemQuantity(cartItems, id) = 0
            /\ ~Present(cartItems, id)
            /\ IF Present(baseItems, id)
               THEN LET k == CHOOSE i \in 1..Len(baseItems) :
                                 baseItems[i].id = id
                    IN  cartItems = WithoutPosition(baseItems, k)
               ELSE cartItems = baseItems

\* the first of two entries, of quantity 2, was removed
C7_Witness ==
    \E id \in Ids :
        /\ SingleCall("remove", id)
        /\ Len(baseItems) = 2
        /\ baseItems[1].id = id
        /\ baseItems[1].quantity = 2
        /\ Len(cartItems) = 1

\* ---- C8 -------------------------------------------------------------------
\* C8: decreaseCartQuantity(id) right after increaseCartQuantity(id) gives
\* back the list that was there before the increase, with the same entries,
\* quantities and order, whether or not id had an entry.
C8_IncreaseThenDecrease ==
    /\ \A id \in Ids :
         DecreaseUpdater(IncreaseUpdater(cartItems, id), id) = cartItems
    /\ (NoPendingCart /\ Len(calls) >= 2) =>
         LET n == Len(calls)
         IN  (/\ calls[n - 1].op = "increase"
              /\ calls[n].op = "decrease"
              /\ calls[n - 1].id = calls[n].id)
             => cartItems = FoldCalls(SubSeq(calls, 1, n - 2), baseItems)

\* increase then decrease of one id was applied to a cart holding that id
C8_Witness ==
    /\ NoPendingCart
    /\ Len(calls) = 2
    /\ calls[1].op = "increase"
    /\ calls[2].op = "decrease"
    /\ calls[1].id = calls[2].id
    /\ Present(baseItems, calls[1].id)
    /\ cartItems = baseItems

\* ---- C9 -------------------------------------------------------------------
\* C9: in every state cartQuantity is the sum of quantity over the entries
\* of the current cartItems (0 for the empty list).
C9_CartQuantityIsSum ==
    cartQuantity = SumQuantities(cartItems)

\* two entries with different quantities have been rendered
C9_Witness ==
    /\ Len(cartItems) = 2
    /\ cartItems[1].quantity = 2
    /\ cartQuantity = 3

\* ---- C10 ------------------------------------------------------------------
\* C10: getItemQuantity(id) returns the quantity of the entry of id, or 0
\* when id has no entry, and changes neither the list nor isOpen.
C10_GetItemQuantity ==
    [][(returned' # returned /\ returned' # <<>>) =>
          LET r == returned'[1]
          IN  /\ r.quantity = IF Present(cartItems, r.id)
                              THEN QuantityIn(cartItems, r.id)
                              ELSE 0
              /\ cartItems' = cartItems
              /\ isOpen' = isOpen]_vars

\* the lookup answered 0 for an id that is not in a non-empty cart
C10_Witness ==
    /\ returned # <<>>
    /\ returned[1].quantity = 0
    /\ cartItems # <<>>
    /\ ~Present(cartItems, returned[1].id)

\* ---- C11 ------------------------------------------------------------------
\* the step in which the provider renders again and takes the queued updates
RenderStep == queue # <<>> /\ queue' = <<>> /\ calls' = calls

\* the calls of the batch that were openCart or closeCart
FlagCalls == SelectSeq(calls, LAMBDA c : c.op \in {"open", "close"})

\* the calls of the batch that were increase, decrease or remove
CartCalls == SelectSeq(calls, LAMBDA c : c.op \in {"increase", "decrease", "remove"})

\* C11: isOpen starts as false; openCart makes it true and closeCart false
\* whatever it was, without changing the list; increase, decrease and
\* remove never change isOpen.
C11_OpenClose ==
    /\ isOpen = FALSE
    /\ [][/\ RenderStep =>
               /\ isOpen' = IF FlagCalls = <<>> THEN isOpen
                            ELSE FlagCalls[Len(FlagCalls)].op = "open"
               /\ CartCalls = <<>> => cartItems' = cartItems
          /\ ~RenderStep /\ queue' # <<>> =>
               /\ isOpen' = isOpen
               /\ cartItems' = cartItems]_vars

\* the cart was closed and opened again in one batch, over a non-empty list
C11_Witness ==
    /\ queue = <<>>
    /\ Len(calls) = 2
    /\ calls[1].op = "close"
    /\ calls[2].op = "open"
    /\ isOpen = TRUE
    /\ cartItems # <<>>
    /\ cartItems = baseItems

\* ---- C12 ------------------------------------------------------------------
\* C12: every batch with an increase, decrease or remove ends with the new
\* list written to the "shopping-cart" slot, so the slot, once written,
\* always reads back as the in-memory list; a change of isOpen alone writes
\* nothing, and the slot holds <<id, quantity>> pairs only.
C12_Persisted ==
    /\ [](/\ stored # <<>> =>
               /\ Load(stored, <<>>) = cartItems
               /\ \A i \in 1..Len(stored[1]) :
                    /\ Len(stored[1][i]) = 2
                    /\ stored[1][i][1] \in Ids
                    /\ stored[1][i][2] \in Nat
          /\ (queue = <<>> /\ CartCalls # <<>>) =>
               /\ stored # <<>>
               /\ Len(stored[1]) = Len(cartItems)
               /\ \A i \in 1..Len(cartItems) :
                    stored[1][i] = <<cartItems[i].id, cartItems[i].quantity>>)
    /\ [][(RenderStep /\ CartCalls = <<>>) => stored' = stored]_vars

\* a cart of two entries was written while the cart was open
C12_Witness ==
    /\ queue = <<>>
    /\ CartCalls # <<>>
    /\ FlagCalls # <<>>
    /\ isOpen = TRUE
    /\ Len(cartItems) = 2
    /\ stored = <<Serialize(cartItems)>>

\* ---- C13 ------------------------------------------------------------------
\* the state of id in a list: 0 for absent, else the quantity of its entry
StateOf(items, id) ==
    IF Present(items, id) THEN QuantityIn(items, id) ELSE 0

\* the transition a call makes on the state q of id
Transition(q, call, id) ==
    IF call.id # id THEN q
    ELSE CASE call.op = "increase" -> q + 1
           [] call.op = "decrease" -> IF q >= 1 THEN q - 1 ELSE q
           [] call.op = "remove"   -> 0
           [] OTHER                -> q

RECURSIVE RunTransitions(_, _, _)
\* the transitions of a sequence of calls, first call first
RunTransitions(q, callSeq, id) ==
    IF callSeq = <<>> THEN q
    ELSE RunTransitions(Transition(q, Head(callSeq), id), Tail(callSeq), id)

\* C13: each id is either absent or present once with quantity >= 1, and
\* its state moves only by increase(id) (absent -> 1, q -> q + 1),
\* decrease(id) (q > 1 -> q - 1, 1 -> absent) and remove(id) (-> absent);
\* calls on other ids and openCart / closeCart leave it as it is (looked
\* at after each render, the only step that changes the list).
C13_PerIdStates ==
    queue = <<>> =>
        \A id \in Ids :
            /\ Cardinality(PositionsOf(cartItems, id)) <= 1
            /\ Present(cartItems, id) => QuantityIn(cartItems, id) >= 1
            /\ StateOf(cartItems, id) =
                  RunTransitions(StateOf(baseItems, id), calls, id)

\* one id was decreased and another removed in a batch; both had entries
C13_Witness ==
    /\ NoPendingCart
    /\ Len(calls) = 2
    /\ calls[1].op = "decrease"
    /\ calls[2].op = "remove"
    /\ calls[1].id # calls[2].id
    /\ Len(baseItems) = 2
    /\ QuantityIn(baseItems, calls[1].id) = 2
    /\ Len(cartItems) = 1

\* ---- C14 ------------------------------------------------------------------
\* the entries of items that are not the entry of id, in their order
OthersOf(items, id) == SelectSeq(items, LAMBDA item : item.id # id)

\* what a call on id may do to the order: the other entries stay as they
\* are and in their order; an entry that stays keeps its position; an entry
\* that is new is the last one
OrderKept(before, after, id) ==
    /\ OthersOf(after, id) = OthersOf(before, id)
    /\ (Present(before, id) /\ Present(after, id)) =>
          /\ Len(after) = Len(before)
          /\ PositionsOf(after, id) = PositionsOf(before, id)
          /\ \A i \in 1..Len(before) :
                before[i].id # id => after[i] = before[i]
    /\ (~Present(before, id) /\ Present(after, id)) =>
          /\ Len(after) = Len(before) + 1
          /\ after[Len(after)].id = id

WellFormed(items) ==
    /\ \A i, j \in 1..Len(items) : items[i].id = items[j].id => i = j
    /\ \A i \in 1..Len(items) : items[i].quantity >= 1

\* C15: from any list with pairwise distinct ids and quantities >= 1,
\* reachable from the empty cart or not, a single increase, decrease or
\* remove with any id gives a list with pairwise distinct ids and
\* quantities >= 1 again.
C15_Inductive ==
    /\ WellFormed(cartItems)
    /\ \A id \in Ids :
         /\ WellFormed(IncreaseUpdater(cartItems, id))
         /\ WellFormed(DecreaseUpdater(cartItems, id))
         /\ WellFormed(RemoveUpdater(cartItems, id))

\* an entry was decreased in a cart larger than any the handlers build here
C15_Witness ==
    \E id \in Ids :
        /\ SingleCall("decrease", id)
        /\ SumQuantities(baseItems) > MaxTotal
        /\ Present(baseItems, id)
        /\ Len(cartItems) = MaxId

\* ---- C16 ------------------------------------------------------------------
\* C16: increase(id) raises cartQuantity by exactly 1; decrease(id) lowers
\* it by exactly 1 when id has an entry and leaves it when it has none;
\* remove(id) lowers it by the quantity id had (0 when absent).  So
\* cartQuantity is never negative and is 0 exactly for the empty list.
C16_QuantityDeltas ==
    /\ cartQuantity >= 0
    /\ cartQuantity = 0 <=> cartItems = <<>>
    /\ \A id \in Ids :
         LET before == SumQuantities(baseItems)
             had == StateOf(baseItems, id)
         IN  /\ SingleCall("increase", id) => cartQuantity = before + 1
             /\ SingleCall("decrease", id) =>
                   cartQuantity = IF had >= 1 THEN before - 1 ELSE before
             /\ SingleCall("remove", id) => cartQuantity = before - had

\* the second of two entries, of quantity 2, was removed: the total fell by 2
C16_Witness ==
    \E id \in Ids :
        /\ SingleCall("remove", id)
        /\ Len(baseItems) = 2
        /\ baseItems[2].id = id
        /\ baseItems[2].quantity = 2
        /\ cartQuantity = 1

\* ---- C17 ------------------------------------------------------------------
\* every call of the sequence is an increase, decrease or remove of id
AllOn(callSeq, id) ==
    \A i \in 1..Len(callSeq) :
        /\ callSeq[i].id = id
        /\ callSeq[i].op \in {"increase", "decrease", "remove"}

\* C17: remove(id) twice gives the list that remove(id) gives once, and
\* remove(id) after any increases and decreases of id gives the list that
\* remove(id) alone gives (every list the provider holds is the list of
\* some render, so the lists are looked at when nothing is queued).
C17_RemoveAbsorbs ==
    queue = <<>> =>
        \A id \in Ids :
            LET once == RemoveUpdater(cartItems, id)
            IN  /\ RemoveUpdater(once, id) = once
                /\ RemoveUpdater(IncreaseUpdater(cartItems, id), id) = once
                /\ RemoveUpdater(DecreaseUpdater(cartItems, id), id) = once
                /\ (/\ calls # <<>>
                    /\ calls[Len(calls)].op = "remove"
                    /\ AllOn(calls, id))
                   => cartItems = OthersOf(baseItems, id)

\* an entry of quantity 2 was decreased and then removed in one batch
C17_Witness ==
    \E id \in Ids :
        /\ NoPendingCart
        /\ Len(calls) = 2
        /\ AllOn(calls, id)
        /\ calls[1].op = "decrease"
        /\ calls[2].op = "remove"
        /\ Len(baseItems) = 2
        /\ StateOf(baseItems, id) = 2
        /\ Len(cartItems) = 1
====
